---- MODULE Spec2Model ----
(***************************************************************************)
(* Model of Module4_Kinetics/Part2_Exercise/enzyme_construction.py: the    *)
(* construction of an enzyme module from a directory of text files.        *)
(*                                                                         *)
(* Python strings are sequences of one-character strings, so that the      *)
(* regular-expression and str.replace rewriting of identifiers acts on     *)
(* characters, as in the source.                                           *)
(***************************************************************************)
EXTENDS Integers, Sequences, FiniteSets, TLC

VARIABLES
    pc,                          \* position in make_enzyme_module_from_dir / the function under call
    error,                       \* the exception that ended the call, or NoError
    files,                       \* the text files of the enzyme directory (inputs)
    kwargs,                      \* kcluster, zero_tol, steady_state_flux, metabolite_concentrations
    id_map,                      \* enzyme_module.id_map: scope -> sequence of <<old, new>> (insertion order)
    metabolites,                 \* enzyme_module.metabolites and enzyme_module_forms (sequence of species records)
    reactions,                   \* enzyme_module.reactions (sequence of reaction records)
    custom_rates,                \* enzyme_module.custom_rates: reaction id -> rate text
    parameters,                  \* rate-constant values of the module: name -> value
    updates,                     \* number of update_parameters calls so far
    enzyme_rate_equation,        \* enzyme_module.enzyme_rate_equation
    enzyme_concentration_total,  \* enzyme_module.enzyme_concentration_total
    ic,                          \* the initial concentration set on each species: id -> value
    completed                    \* the stages completed so far, in order

vars == <<pc, error, files, kwargs, id_map, metabolites, reactions, custom_rates,
          parameters, updates, enzyme_rate_equation, enzyme_concentration_total,
          ic, completed>>

-----------------------------------------------------------------------------
(* Bounds of the model *)

\* most bracketed tags appended to a generated raw species identifier
MaxTags == 2
\* most reactions of a generated symmetry family
MaxFamily == 3
\* most lines of a generated cluster file
MaxClusters == 3
\* largest magnitude of an evaluated per-form concentration, in units of 1e-16
MaxConc == 12
\* largest magnitude of a candidate total-enzyme value
MaxRoot == 3
\* most labels of a generated label file
MaxLabels == 4
\* most values of a generated cluster line
MaxValues == 4

-----------------------------------------------------------------------------
(* Python str operations on sequences of characters *)

\* no exception, inside a function and as the state of the call
Ok == "none"
NoError == [type |-> Ok, range |-> <<>>]

Digits == {"0", "1", "2", "3", "4", "5", "6", "7", "8", "9"}
Whitespace == {" "}
Letters == {"a", "b", "c", "d", "e", "g", "p", "t", "k", "f", "r", "v", "w", "x",
            "D", "L", "E", "R", "X", "Y", "T"}

\* s[i..] begins with p
MatchAt(s, p, i) ==
    /\ i >= 1
    /\ i + Len(p) - 1 <= Len(s)
    /\ \A j \in 1..Len(p) : s[i + j - 1] = p[j]

\* str.startswith
StartsWith(s, p) == MatchAt(s, p, 1)

\* `p in s` for strings
Contains(s, p) == \E i \in 1..(Len(s) + 1) : MatchAt(s, p, i)

\* str.find from position i: the first position >= i where p occurs, 0 if none
FindFrom(s, p, i) ==
    LET hits == {k \in i..(Len(s) + 1) : MatchAt(s, p, k)}
    IN IF hits = {} THEN 0 ELSE CHOOSE k \in hits : \A m \in hits : k <= m

\* s with its first `count` occurrences of the (non-empty, literal) p replaced
\* by r, scanning left to right without rescanning replaced text; count < 0
\* replaces them all
RECURSIVE ReplaceFrom(_, _, _, _, _)
ReplaceFrom(s, p, r, i, count) ==
    LET k == FindFrom(s, p, i)
    IN IF count = 0 \/ k = 0 \/ Len(p) = 0
       THEN SubSeq(s, i, Len(s))
       ELSE SubSeq(s, i, k - 1) \o r \o ReplaceFrom(s, p, r, k + Len(p), count - 1)

\* str.replace(p, r), and re.sub of a pattern that is a literal
ReplaceAll(s, p, r) == ReplaceFrom(s, p, r, 1, -1)

\* re.sub(p, r, s, 1) of a pattern that is a literal
ReplaceFirst(s, p, r) == ReplaceFrom(s, p, r, 1, 1)

\* str.split(sep)
RECURSIVE SplitFrom(_, _, _)
SplitFrom(s, sep, i) ==
    LET k == FindFrom(s, sep, i)
    IN IF k = 0 \/ Len(sep) = 0
       THEN <<SubSeq(s, i, Len(s))>>
       ELSE <<SubSeq(s, i, k - 1)>> \o SplitFrom(s, sep, k + Len(sep))

Split(s, sep) == SplitFrom(s, sep, 1)

\* str.strip of whitespace
RECURSIVE Strip(_)
Strip(s) ==
    IF s = <<>> THEN s
    ELSE IF Head(s) \in Whitespace THEN Strip(Tail(s))
    ELSE IF s[Len(s)] \in Whitespace THEN Strip(SubSeq(s, 1, Len(s) - 1))
    ELSE s

\* sep.join(ss)
RECURSIVE Join(_, _)
Join(ss, sep) ==
    IF ss = <<>> THEN <<>>
    ELSE IF Len(ss) = 1 THEN ss[1]
    ELSE ss[1] \o sep \o Join(Tail(ss), sep)

\* position of the first element of a sequence equal to x, 0 if none (list.index)
IndexOf(seq, x) ==
    LET hits == {k \in 1..Len(seq) : seq[k] = x}
    IN IF hits = {} THEN 0 ELSE CHOOSE k \in hits : \A m \in hits : k <= m

\* the sequence without its k-th element (list.pop(k))
RemoveAt(seq, k) == SubSeq(seq, 1, k - 1) \o SubSeq(seq, k + 1, Len(seq))

\* dict lookup in an insertion-ordered mapping kept as a sequence of <<key, value>>
HasKey(m, key) == \E k \in 1..Len(m) : m[k][1] = key
Lookup(m, key) == m[CHOOSE k \in 1..Len(m) : m[k][1] = key][2]

\* dict assignment m[key] = value: an existing key keeps its place
Assign(m, key, value) ==
    IF HasKey(m, key)
    THEN [k \in 1..Len(m) |-> IF m[k][1] = key THEN <<key, value>> ELSE m[k]]
    ELSE Append(m, <<key, value>>)

-----------------------------------------------------------------------------
(* Pre-compiled regular expressions and the identifier helpers *)

\* the matches of compartment_finder_re, \s*\[([A-Za-z])\], that start their
\* bracket at position i
BracketAt(s, i) ==
    /\ i + 2 <= Len(s)
    /\ s[i] = "["
    /\ s[i + 1] \in Letters
    /\ s[i + 2] = "]"

\* compartment_finder_re.findall(s): the bracketed letters, left to right
RECURSIVE FindallFrom(_, _)
FindallFrom(s, i) ==
    IF i > Len(s) THEN <<>>
    ELSE IF BracketAt(s, i) THEN <<s[i + 1]>> \o FindallFrom(s, i + 3)
    ELSE FindallFrom(s, i + 1)

compartment_finder_findall(s) == FindallFrom(s, 1)

\* first position >= i that is not whitespace (Len(s) + 1 if none)
RECURSIVE SkipSpace(_, _)
SkipSpace(s, i) ==
    IF i <= Len(s) /\ s[i] \in Whitespace THEN SkipSpace(s, i + 1) ELSE i

\* compartment_finder_re.sub(r, s): every match, with the whitespace before its
\* bracket, replaced by r
RECURSIVE CompartmentSubFrom(_, _, _)
CompartmentSubFrom(s, r, i) ==
    IF i > Len(s) THEN <<>>
    ELSE LET j == SkipSpace(s, i)
         IN IF BracketAt(s, j)
            THEN r \o CompartmentSubFrom(s, r, j + 3)
            ELSE <<s[i]>> \o CompartmentSubFrom(s, r, i + 1)

compartment_finder_sub(r, s) == CompartmentSubFrom(s, r, 1)

\* the delimiters of bound_metabolites_re, &|@|#
BoundDelimiters == {"&", "@", "#"}

\* bound_metabolites_re.search(s)
bound_metabolites_search(s) == \E i \in 1..Len(s) : s[i] \in BoundDelimiters

\* bound_metabolites_re.split(s)
RECURSIVE BoundSplitFrom(_, _, _)
BoundSplitFrom(s, i, start) ==
    IF i > Len(s) THEN <<SubSeq(s, start, Len(s))>>
    ELSE IF s[i] \in BoundDelimiters
         THEN <<SubSeq(s, start, i - 1)>> \o BoundSplitFrom(s, i + 1, i + 1)
         ELSE BoundSplitFrom(s, i + 1, start)

bound_metabolites_split(s) == BoundSplitFrom(s, 1, 1)

\* bound_metabolites_re.sub("_", s)
bound_metabolites_sub(s) ==
    [i \in 1..Len(s) |-> IF s[i] \in BoundDelimiters THEN "_" ELSE s[i]]

\* prefix_number_id without the digit test: the identifier is kept as read
prefix_number_id_kept(id_str) == id_str

\* prefix_number_id: prefix identifiers that start with a digit
prefix_number_id(id_str) ==
    IF Len(id_str) >= 1 /\ id_str[1] \in Digits THEN <<"_">> \o id_str ELSE id_str

-----------------------------------------------------------------------------
(* metabolites_from_txt *)

\* a Python value that is either the list findall returned or the one letter
\* popped from it
ListValue(l) == [isStr |-> FALSE, list |-> l, str |-> ""]
StrValue(c) == [isStr |-> TRUE, list |-> <<>>, str |-> c]

\* lines 150-156: the isomer bracket, when there is one, is popped from the
\* findall list and every [isomer] of the identifier becomes _isomer
IsomerStep(orig_id) ==
    LET compartment == compartment_finder_findall(orig_id)
        hasD == IndexOf(compartment, "D") # 0
        hasL == IndexOf(compartment, "L") # 0
        isomer == IF hasD THEN "D" ELSE "L"
    IN IF hasD \/ hasL
       THEN [compartment |-> RemoveAt(compartment, IndexOf(compartment, isomer)),
             new_id |-> ReplaceAll(orig_id, <<"[", isomer, "]">>, <<"_", isomer>>),
             isomer |-> isomer]
       ELSE [compartment |-> compartment, new_id |-> orig_id, isomer |-> ""]

\* lines 158-162: one compartment remaining is the compartment of the species
CompartmentStep(st) ==
    IF Len(st.compartment) = 1
    THEN [compartment |-> StrValue(st.compartment[1]),
          new_id |-> compartment_finder_sub(<<"_", st.compartment[1]>>, st.new_id)]
    ELSE [compartment |-> ListValue(st.compartment), new_id |-> st.new_id]

\* lines 171-177: the identifiers of the bound species and how many are bound;
\* "_" + compartment is a TypeError when compartment is still a list
RECURSIVE CountBound(_, _, _)
CountBound(fragments, compartment, bound) ==
    IF fragments = <<>> THEN bound
    ELSE LET bound_specie_id ==
                 prefix_number_id(Head(fragments) \o <<"_", compartment.str>>)
             n == IF HasKey(bound, bound_specie_id)
                  THEN Lookup(bound, bound_specie_id) ELSE 0
         IN CountBound(Tail(fragments), compartment,
                       Assign(bound, bound_specie_id, n + 1))

\* lines 147-192, one pass of the loop: the species built from orig_id
NormalizeSpecies(orig_id, enzyme_id) ==
    LET iso == IsomerStep(orig_id)
        cmp == CompartmentStep(iso)
        new_id == prefix_number_id(cmp.new_id)
        is_form == StartsWith(new_id, <<"E", "_">> \o enzyme_id)
        has_bound == is_form /\ bound_metabolites_search(new_id)
    IN IF has_bound /\ ~cmp.compartment.isStr
       THEN [error |-> "TypeError", orig_id |-> orig_id, id |-> new_id,
             compartment |-> cmp.compartment, form |-> TRUE,
             bound_metabolites |-> <<>>]
       ELSE [error |-> Ok, orig_id |-> orig_id,
             id |-> IF has_bound THEN bound_metabolites_sub(new_id) ELSE new_id,
             compartment |-> cmp.compartment, form |-> is_form,
             bound_metabolites |->
                 IF has_bound
                 THEN CountBound(Tail(bound_metabolites_split(new_id)),
                                 cmp.compartment, <<>>)
                 ELSE <<>>]

\* the lines of a file, stripped: [l.strip() for l in f.readlines()]
StrippedLines(file) == [k \in 1..Len(file) |-> Strip(file[k])]

\* the species of the lines before the first one that raises
RECURSIVE SpeciesLoop(_, _)
SpeciesLoop(original_ids, enzyme_id) ==
    IF original_ids = <<>> THEN <<>>
    ELSE LET specie == NormalizeSpecies(Head(original_ids), enzyme_id)
         IN IF specie.error # Ok THEN <<specie>>
            ELSE <<specie>> \o SpeciesLoop(Tail(original_ids), enzyme_id)

\* the ID mapping stored by the passes that completed (line 192)
RECURSIVE SpeciesIdMap(_, _)
SpeciesIdMap(species, m) ==
    IF species = <<>> \/ Head(species).error # Ok THEN m
    ELSE SpeciesIdMap(Tail(species), Assign(m, Head(species).orig_id, Head(species).id))

\* the stages of make_enzyme_module_from_dir, in the order of lines 92-131
Stages == <<"species", "reactions", "rateconsts", "ratelaw", "total", "steady", "del">>

\* the stages with the rate law read before the rate constants are loaded
NextStageRateLawFirst(stage) ==
    CASE stage = "reactions" -> "ratelaw"
      [] stage = "ratelaw" -> "rateconsts"
      [] stage = "rateconsts" -> "total"
      [] stage = "del" -> "returned"
      [] OTHER -> Stages[IndexOf(Stages, stage) + 1]

\* the stage that follows `stage`; "returned" after the last (line 133)
NextStage(stage) ==
    LET k == IndexOf(Stages, stage)
    IN IF k = Len(Stages) THEN "returned" ELSE Stages[k + 1]

\* the ID map scopes a stage reads, and the module attributes it reads
ScopesRead(stage) ==
    CASE stage = "species" -> {}
      [] stage = "reactions" -> {"species"}
      [] stage = "rateconsts" -> {"reactions"}
      [] stage = "ratelaw" -> {"species", "kf", "kr"}
      [] stage = "total" -> {"enzyme_rate_equation"}
      [] stage = "steady" -> {"species", "kf", "kr", "enzyme_concentration_total"}
      [] OTHER -> {}

\* what exists of the ID map scopes, the rate equation and the total
Produced ==
    (IF id_map.attr THEN id_map.scopes ELSE {})
        \cup (IF enzyme_rate_equation.set THEN {"enzyme_rate_equation"} ELSE {})
        \cup (IF enzyme_concentration_total # <<>> THEN {"enzyme_concentration_total"}
              ELSE {})

\* the call ends with an exception: nothing is returned
Raise(exc) ==
    /\ pc' = "failed"
    /\ error' = [type |-> exc, range |-> <<>>]

\* lines 249-251: the IndexError whose message names the valid range
RaiseInvalidKcluster(range) ==
    /\ pc' = "failed"
    /\ error' = [type |-> "IndexError", range |-> range]

\* the stage ran to its end
Complete(stage) ==
    /\ pc' = NextStage(stage)
    /\ UNCHANGED error
    /\ completed' = Append(completed, stage)

\* line 92, lines 136-196
MetabolitesFromTxt ==
    /\ pc = "species"
    /\ LET original_ids == StrippedLines(files.species)
           species == SpeciesLoop(original_ids, kwargs.enzyme_id)
           failed == \E k \in 1..Len(species) : species[k].error # Ok
       IN /\ id_map' = [id_map EXCEPT !.scopes = @ \cup {"species"},
                                      !.species = SpeciesIdMap(species, <<>>)]
          /\ IF failed
             THEN /\ Raise(species[Len(species)].error)
                  /\ UNCHANGED <<metabolites, completed>>
             ELSE /\ Complete("species")
                  /\ metabolites' = species
    /\ UNCHANGED <<files, kwargs, reactions, custom_rates, parameters, updates,
                   enzyme_rate_equation, enzyme_concentration_total, ic>>

-----------------------------------------------------------------------------
(* reactions_from_txt *)

ColonSep == <<":", " ">>
ArrowSep == <<" ", "<", "=", ">", " ">>
PlusSep == <<" ", "+", " ">>

\* lines 219-220: the species tokens of a formula; operator.iconcat takes
\* exactly two lists, so a formula without exactly one " <=> " is a TypeError
SpeciesList(reaction_str) ==
    LET sides == Split(Strip(reaction_str), ArrowSep)
    IN IF Len(sides) # 2 THEN [error |-> "TypeError", list |-> <<>>]
       ELSE [error |-> Ok,
             list |-> Split(sides[1], PlusSep) \o Split(sides[2], PlusSep)]

\* the rewriting with dict.get(specie_id, specie_id): a token without an entry
\* is passed through
RECURSIVE FixSpecieIdsLenient(_, _, _)
FixSpecieIdsLenient(species_list, species_map, reaction_str) ==
    IF species_list = <<>> THEN [error |-> Ok, str |-> reaction_str]
    ELSE LET specie_id == Head(species_list)
         IN FixSpecieIdsLenient(
                Tail(species_list), species_map,
                IF HasKey(species_map, specie_id)
                THEN ReplaceFirst(reaction_str, specie_id, Lookup(species_map, specie_id))
                ELSE reaction_str)

\* lines 221-225: each token in turn replaces its first occurrence in the
\* string rewritten so far by its normalized identifier; a token without an
\* entry in the species ID map is a KeyError
RECURSIVE FixSpecieIds(_, _, _)
FixSpecieIds(species_list, species_map, reaction_str) ==
    IF species_list = <<>> THEN [error |-> Ok, str |-> reaction_str]
    ELSE LET specie_id == Head(species_list)
         IN IF ~HasKey(species_map, specie_id)
            THEN [error |-> "KeyError", str |-> reaction_str]
            ELSE FixSpecieIds(Tail(species_list), species_map,
                              ReplaceFirst(reaction_str, specie_id,
                                           Lookup(species_map, specie_id)))

\* line 227, build_reaction_from_string of the modelling library: the
\* participants on each side of the formula it is handed
BuildReactionFromString(reaction, reaction_str) ==
    LET sides == Split(Strip(reaction_str), ArrowSep)
    IN [reaction EXCEPT !.built = TRUE,
                        !.formula = reaction_str,
                        !.reactants = [k \in 1..Len(Split(sides[1], PlusSep)) |->
                                          Strip(Split(sides[1], PlusSep)[k])],
                        !.products = [k \in 1..Len(Split(sides[2], PlusSep)) |->
                                         Strip(Split(sides[2], PlusSep)[k])]]

\* lines 213-215: the empty reaction object
EnzymeModuleReaction(new_id) ==
    [id |-> new_id, built |-> FALSE, formula |-> <<>>,
     reactants |-> <<>>, products |-> <<>>]

\* lines 208-229: the loop over the lines; st is the module's reactions and
\* the reactions scope so far, and the loop stops at the first exception
RECURSIVE ReactionsLoop(_, _, _)
ReactionsLoop(reaction_strings, species_map, st) ==
    IF reaction_strings = <<>> THEN st
    ELSE LET parts == Split(Head(reaction_strings), ColonSep)
         IN IF Len(parts) # 2 THEN [st EXCEPT !.error = "ValueError"]
            ELSE LET orig_id == parts[1]
                     new_id == prefix_number_id(ReplaceAll(orig_id, <<"$">>, <<"_">>))
                     reaction == EnzymeModuleReaction(new_id)
                     added == Append(st.reactions, reaction)
                     tokens == SpeciesList(parts[2])
                     fixed == FixSpecieIds(tokens.list, species_map, parts[2])
                 IN IF tokens.error # Ok
                    THEN [st EXCEPT !.reactions = added, !.error = tokens.error]
                    ELSE IF fixed.error # Ok
                    THEN [st EXCEPT !.reactions = added, !.error = fixed.error]
                    ELSE ReactionsLoop(
                             Tail(reaction_strings), species_map,
                             [st EXCEPT
                                 !.reactions =
                                     Append(st.reactions,
                                            BuildReactionFromString(reaction, fixed.str)),
                                 !.map = Assign(st.map, orig_id, new_id)])

\* line 95, lines 199-231
ReactionsFromTxt ==
    /\ pc = "reactions"
    /\ IF ~(ScopesRead("reactions") \subseteq Produced)
       THEN /\ Raise("MissingScope")
            /\ UNCHANGED <<id_map, reactions, completed>>
       ELSE LET st == ReactionsLoop(StrippedLines(files.reactions), id_map.species,
                                    [reactions |-> reactions, map |-> <<>>,
                                     error |-> Ok])
            IN /\ id_map' = [id_map EXCEPT !.scopes = @ \cup {"reactions"},
                                           !.reactions = st.map]
               /\ reactions' = st.reactions
               /\ IF st.error # Ok
                  THEN Raise(st.error) /\ UNCHANGED completed
                  ELSE Complete("reactions")
    /\ UNCHANGED <<files, kwargs, metabolites, custom_rates, parameters, updates,
                   enzyme_rate_equation, enzyme_concentration_total, ic>>

-----------------------------------------------------------------------------
(* rateconsts_from_txt *)

\* the characters in code-point order, for the comparison of identifiers
CodePoints == <<" ", "#", "$", "&", "*", "+", "-", "0", "1", "2", "3", "4", "5", "6",
                "7", "8", "9", ":", "<", "=", ">", "@", "D", "E", "L", "R", "T", "X",
                "Y", "[", "]", "_", "a", "b", "c", "d", "e", "f", "g", "k", "p", "r",
                "t", "v", "w", "x">>

Ord(c) == IndexOf(CodePoints, c)

\* a < b for Python strings
RECURSIVE StrLess(_, _)
StrLess(a, b) ==
    IF b = <<>> THEN FALSE
    ELSE IF a = <<>> THEN TRUE
    ELSE IF Head(a) = Head(b) THEN StrLess(Tail(a), Tail(b))
    ELSE Ord(Head(a)) < Ord(Head(b))

\* sorted(rxn_list, key=attrgetter("id")): a stable insertion sort
RECURSIVE InsertById(_, _)
InsertById(sorted, rxn) ==
    IF sorted = <<>> THEN <<rxn>>
    ELSE IF StrLess(rxn.id, Head(sorted).id) THEN <<rxn>> \o sorted
    ELSE <<Head(sorted)>> \o InsertById(Tail(sorted), rxn)

RECURSIVE SortedById(_)
SortedById(rxn_list) ==
    IF rxn_list = <<>> THEN <<>>
    ELSE InsertById(SortedById(SubSeq(rxn_list, 1, Len(rxn_list) - 1)),
                    rxn_list[Len(rxn_list)])

\* str(n) of a natural number
RECURSIVE IntStr(_)
IntStr(n) ==
    LET d == <<"0", "1", "2", "3", "4", "5", "6", "7", "8", "9">>
    IN IF n < 10 THEN <<d[n + 1]>> ELSE IntStr(n \div 10) \o <<d[(n % 10) + 1]>>

\* lines 246-251: lines[kcluster - 1] with Python's list indexing, where a
\* negative index counts from the end of the list
ClusterLine(lines, kcluster) ==
    LET index == kcluster - 1
        position == IF index < 0 THEN index + Len(lines) ELSE index
    IN IF position < 0 \/ position >= Len(lines)
       THEN [error |-> "IndexError", range |-> <<1, Len(lines)>>, line |-> 0]
       ELSE [error |-> Ok, range |-> <<1, Len(lines)>>, line |-> position + 1]

\* line 18 and lines 258-259: rateconst_re, k_(\S*)_(fwd|rev)\Z, searched in a
\* label: the leftmost k_ from which only non-space characters lead to a final
\* _fwd or _rev
RateconstMatch(rateconst) ==
    LET n == Len(rateconst)
        tail == SubSeq(rateconst, n - 3, n)
        direction == IF n >= 4 /\ tail = <<"_", "f", "w", "d">> THEN "fwd"
                     ELSE IF n >= 4 /\ tail = <<"_", "r", "e", "v">> THEN "rev"
                     ELSE ""
        starts == {p \in 1..(n - 5) :
                      /\ MatchAt(rateconst, <<"k", "_">>, p)
                      /\ \A j \in (p + 2)..(n - 4) : rateconst[j] \notin Whitespace}
    IN IF direction = "" \/ starts = {}
       THEN [matched |-> FALSE, rid |-> <<>>, direction |-> ""]
       ELSE LET p == CHOOSE q \in starts : \A m \in starts : q <= m
            IN [matched |-> TRUE, rid |-> SubSeq(rateconst, p + 2, n - 4),
                direction |-> direction]

\* line 260 with the two keys exchanged
DirectionKeySwapped(direction) == IF direction = "fwd" THEN "kr" ELSE "kf"

\* line 260
DirectionKey(direction) == IF direction = "fwd" THEN "kf" ELSE "kr"

KeyStr(key) == IF key = "kf" THEN <<"k", "f">> ELSE <<"k", "r">>

\* "_".join((key, rid)), and the kf_str / kr_str of a reaction
RateconstName(key, rid) == KeyStr(key) \o <<"_">> \o rid

\* lines 270-273: float(value), then float of the text with "*^" rewritten to
\* "e"; the result is in tenths of a unit
Float(value) ==
    IF value.marker \in {"", "e", "*^"}
    THEN [error |-> Ok, value |-> value.digits * (10 ^ value.exp)]
    ELSE [error |-> "ValueError", value |-> 0]

\* line 275: s -> hrs
SecondsPerHour == 3600

ToPerHour(value) == value * SecondsPerHour

\* line 266: the reactions whose identifier contains rid
ReactionsWith(rid) == SelectSeq(reactions, LAMBDA r : Contains(r.id, rid))

\* zip_longest in the place of zip: the shorter list is padded, the labels with
\* the empty label and the values with 0
ZipLongest(labels, values) ==
    LET n == IF Len(labels) >= Len(values) THEN Len(labels) ELSE Len(values)
    IN [k \in 1..n |->
           <<IF k <= Len(labels) THEN labels[k] ELSE <<>>,
             IF k <= Len(values) THEN values[k]
             ELSE [marker |-> "", digits |-> 0, exp |-> 0]>>]

\* line 257, zip(rateconst_labels, values): the pairs by position, as many as
\* the shorter of the two lists has elements
Zip(labels, values) ==
    LET n == IF Len(labels) <= Len(values) THEN Len(labels) ELSE Len(values)
    IN [k \in 1..n |-> <<labels[k], values[k]>>]

\* lines 257-275: the loop over zip(rateconst_labels, values); st holds
\* id_map["kf"], id_map["kr"], to_unify and rateconst_values
RECURSIVE AssignLoop(_, _, _, _)
AssignLoop(labels, values, k, st) ==
    IF k > Len(Zip(labels, values)) THEN st
    ELSE LET rateconst == Zip(labels, values)[k][1]
             match == RateconstMatch(rateconst)
             key == DirectionKey(match.direction)
             direct == HasKey(id_map.reactions, match.rid)
             new_rateconst ==
                 IF direct
                 THEN RateconstName(key, Lookup(id_map.reactions, match.rid))
                 ELSE RateconstName(key, match.rid)
             value == Float(Zip(labels, values)[k][2])
             unify == IF direct THEN st.to_unify
                      ELSE Assign(st.to_unify, match.rid, ReactionsWith(match.rid))
         IN IF ~match.matched THEN [st EXCEPT !.error = "AttributeError"]
            ELSE IF value.error # Ok
            THEN [st EXCEPT !.error = value.error, !.to_unify = unify]
            ELSE AssignLoop(labels, values, k + 1,
                    [st EXCEPT
                        !.to_unify = unify,
                        ![key] = Assign(st[key], rateconst, new_rateconst),
                        !.rateconst_values =
                            Assign(st.rateconst_values, new_rateconst,
                                   ToPerHour(value.value))])

\* line 280, unify_rate_parameters(rxn_list, rid, rate_type=2) of the modelling
\* library: the type-2 mass action rate of the reaction, on the constants of
\* the group
RECURSIVE Product(_)
Product(ids) == IF ids = <<>> THEN <<>> ELSE <<"*">> \o Head(ids) \o Product(Tail(ids))

UnifiedRate(rxn, rid) ==
    RateconstName("kf", rid) \o Product(rxn.reactants)
        \o <<" ", "-", " ">> \o RateconstName("kr", rid) \o Product(rxn.products)

\* lines 285-288 with the two coefficients exchanged
SymmetryRateSwapped(rate_equation, rid, i, n) ==
    LET kf_str == RateconstName("kf", rid)
        kr_str == RateconstName("kr", rid)
        with_kr == ReplaceAll(rate_equation, kr_str, IntStr(n - i) \o <<"*">> \o kr_str)
    IN ReplaceAll(with_kr, kf_str, IntStr(i + 1) \o <<"*">> \o kf_str)

\* lines 285-288: the symmetry coefficients of the member at position i
\* (0-based) of a group of n
SymmetryRate(rate_equation, rid, i, n) ==
    LET kf_str == RateconstName("kf", rid)
        kr_str == RateconstName("kr", rid)
        with_kr == ReplaceAll(rate_equation, kr_str, IntStr(i + 1) \o <<"*">> \o kr_str)
    IN ReplaceAll(with_kr, kf_str, IntStr(n - i) \o <<"*">> \o kf_str)

\* lines 283-292: the custom rates of one group, in ascending order of
\* reaction identifier
RECURSIVE GroupRates(_, _, _, _)
GroupRates(sorted, rid, i, rates) ==
    IF i >= Len(sorted) THEN rates
    ELSE GroupRates(sorted, rid, i + 1,
                    Assign(rates, sorted[i + 1].id,
                           SymmetryRate(UnifiedRate(sorted[i + 1], rid), rid, i,
                                        Len(sorted))))

\* lines 278-292: every group of to_unify, in insertion order
RECURSIVE UnifyLoop(_, _)
UnifyLoop(to_unify, rates) ==
    IF to_unify = <<>> THEN rates
    ELSE UnifyLoop(Tail(to_unify),
                   GroupRates(SortedById(Head(to_unify)[2]), Head(to_unify)[1], 0, rates))

\* line 295, update_parameters: the values are set on the module
RECURSIVE UpdateParameters(_, _)
UpdateParameters(params, values) ==
    IF values = <<>> THEN params
    ELSE UpdateParameters(Assign(params, Head(values)[1], Head(values)[2]), Tail(values))

\* lines 102-104, lines 234-297
RateconstsFromTxt ==
    /\ pc = "rateconsts"
    /\ LET chosen == ClusterLine(files.rateconst_clusters, kwargs.kcluster)
       IN IF ~(ScopesRead("rateconsts") \subseteq Produced)
          THEN /\ Raise("MissingScope")
               /\ UNCHANGED <<id_map, custom_rates, parameters, updates, completed>>
          ELSE IF chosen.error # Ok
          THEN /\ RaiseInvalidKcluster(chosen.range)
               /\ id_map' = [id_map EXCEPT !.scopes = @ \cup {"kf", "kr"}]
               /\ UNCHANGED <<custom_rates, parameters, updates, completed>>
          ELSE LET st == AssignLoop(StrippedLines(files.rateconst_labels),
                                    files.rateconst_clusters[chosen.line], 1,
                                    [kf |-> <<>>, kr |-> <<>>, to_unify |-> <<>>,
                                     rateconst_values |-> <<>>, error |-> Ok])
               IN /\ id_map' = [id_map EXCEPT !.scopes = @ \cup {"kf", "kr"},
                                              !.kf = st.kf, !.kr = st.kr]
                  /\ IF st.error # Ok
                     THEN /\ Raise(st.error)
                          /\ UNCHANGED <<custom_rates, parameters, updates, completed>>
                     ELSE /\ Complete("rateconsts")
                          /\ custom_rates' = UnifyLoop(st.to_unify, custom_rates)
                          /\ parameters' = UpdateParameters(parameters, st.rateconst_values)
                          /\ updates' = updates + 1
    /\ UNCHANGED <<files, kwargs, metabolites, reactions, enzyme_rate_equation,
                   enzyme_concentration_total, ic>>

-----------------------------------------------------------------------------
(* fix_equation_variables and kinetic_rate_law_from_txt *)

\* enzyme_module.compartments: the compartment codes of the module's species,
\* in code-point order
Compartments ==
    LET cids == {metabolites[k].compartment.str :
                    k \in {j \in 1..Len(metabolites) : metabolites[j].compartment.isStr}}
    IN SelectSeq(CodePoints, LAMBDA c : c \in cids)

\* enzyme_module.enzyme_total_symbol_str
EnzymeTotalSymbol(enzyme_id) == enzyme_id \o <<"_", "T", "o", "t", "a", "l">>

\* lines 40-52: the compartment parentheses, the volume parameters and the
\* total-enzyme parameter, for each compartment of the module
RECURSIVE FixCompartments(_, _, _)
FixCompartments(cids, enzyme_id, equation_str) ==
    IF cids = <<>> THEN equation_str
    ELSE LET cid == Head(cids)
             brackets == ReplaceAll(equation_str, <<"(", cid, ")">>, <<"[", cid, "]">>)
             vol_str == <<"p", "a", "r", "a", "m", "_", "V", "o", "l", "u", "m", "e",
                          "_", cid>>
             volume == ReplaceAll(brackets, vol_str, <<"1">>)
             e_tot_str == <<"p", "a", "r", "a", "m", "_">> \o enzyme_id
                              \o <<"_", "t", "o", "t", "a", "l">>
         IN FixCompartments(Tail(cids), enzyme_id,
                            ReplaceAll(volume, e_tot_str, EnzymeTotalSymbol(enzyme_id)))

\* lines 55-58: re.sub(old_id, new_id, equation_str) for every entry of one
\* scope, in insertion order; each rewrites every occurrence of old_id in the
\* text as the earlier entries left it
RECURSIVE FixScope(_, _)
FixScope(scope, equation_str) ==
    IF scope = <<>> THEN equation_str
    ELSE FixScope(Tail(scope), ReplaceAll(equation_str, Head(scope)[1], Head(scope)[2]))

\* lines 37-59
fix_equation_variables(equation_str) ==
    FixScope(id_map.kr,
        FixScope(id_map.kf,
            FixScope(id_map.species,
                FixCompartments(Compartments, kwargs.enzyme_id, equation_str))))

\* line 106, lines 300-310; sympify keeps the rewritten text, and the rate as
\* a polynomial in the total-enzyme symbol is what the text means once the
\* concentrations are substituted
KineticRateLawFromTxt ==
    /\ pc = "ratelaw"
    /\ IF ~(ScopesRead("ratelaw") \subseteq Produced)
       THEN /\ Raise("MissingScope")
            /\ UNCHANGED <<enzyme_rate_equation, completed>>
       ELSE /\ Complete("ratelaw")
            /\ enzyme_rate_equation' =
                   [set |-> TRUE, text |-> fix_equation_variables(files.rateLaw.text),
                    coeffs |-> files.rateLaw.coeffs]
    /\ UNCHANGED <<files, kwargs, id_map, metabolites, reactions, custom_rates,
                   parameters, updates, enzyme_concentration_total, ic>>

-----------------------------------------------------------------------------
(* calculate_enzyme_total *)

\* the rate c0 + c1*E + c2*E^2 at total enzyme e
RateAt(coeffs, e) == coeffs[1] + coeffs[2] * e + coeffs[3] * e * e

\* lines 64-68, sym.solveset of rate = steady_state_flux for the total-enzyme
\* symbol: the solutions in ascending order, or every number when the
\* equation holds identically
Solveset(coeffs, steady_state_flux) ==
    IF coeffs[2] = 0 /\ coeffs[3] = 0 /\ coeffs[1] = steady_state_flux
    THEN [finite |-> FALSE, list |-> <<>>]
    ELSE [finite |-> TRUE,
          list |-> LET sols == {e \in (-MaxRoot)..MaxRoot :
                                   RateAt(coeffs, e) = steady_state_flux}
                       all == [k \in 1..(2 * MaxRoot + 1) |-> k - MaxRoot - 1]
                   IN SelectSeq(all, LAMBDA e : e \in sols)]

\* lines 67-70: list(...) of the solution set, then the float of its last
\* element; an infinite set cannot be listed and an empty list cannot be popped
calculate_enzyme_total(coeffs, steady_state_flux) ==
    LET e_total == Solveset(coeffs, steady_state_flux)
    IN IF ~e_total.finite THEN [error |-> "TypeError", value |-> 0]
       ELSE IF e_total.list = <<>> THEN [error |-> "IndexError", value |-> 0]
       ELSE [error |-> Ok, value |-> e_total.list[Len(e_total.list)]]

\* lines 108-112
CalculateEnzymeTotal ==
    /\ pc = "total"
    /\ IF ~(ScopesRead("total") \subseteq Produced)
       THEN /\ Raise("MissingScope")
            /\ UNCHANGED <<enzyme_concentration_total, completed>>
       ELSE LET e_total == calculate_enzyme_total(enzyme_rate_equation.coeffs,
                                                  kwargs.steady_state_flux)
            IN IF e_total.error # Ok
               THEN /\ Raise(e_total.error)
                    /\ UNCHANGED <<enzyme_concentration_total, completed>>
               ELSE /\ Complete("total")
                    /\ enzyme_concentration_total' = <<e_total.value>>
    /\ UNCHANGED <<files, kwargs, id_map, metabolites, reactions, custom_rates,
                   parameters, updates, enzyme_rate_equation, ic>>

-----------------------------------------------------------------------------
(* steady_state_concentrations_from_txt and the end of the assembly *)

Abs(v) == IF v < 0 THEN -v ELSE v

\* lines 324-325 without abs: the comparison of the signed value
ZeroClampSigned(v, zero_tol) == IF v <= zero_tol THEN 0 ELSE v

\* lines 323-326: the evaluated concentration is stored as 0 when its
\* magnitude is within zero_tol
ZeroClamp(v, zero_tol) == IF Abs(v) <= zero_tol THEN 0 ELSE v

\* the species of the module with this identifier
SpecieById(id) == metabolites[CHOOSE k \in 1..Len(metabolites) : metabolites[k].id = id]

\* lines 115-128: the loop over the species ID map; an enzyme form takes the
\* clamped value of its equation file, a metabolite its given concentration
RECURSIVE SteadyLoop(_, _)
SteadyLoop(entries, st) ==
    IF entries = <<>> THEN st
    ELSE LET old_specie == Head(entries)[1]
             specie == SpecieById(Head(entries)[2])
         IN IF specie.form
            THEN IF ~HasKey(files.equations, old_specie)
                 THEN [st EXCEPT !.error = "FileNotFoundError"]
                 ELSE SteadyLoop(Tail(entries),
                          [st EXCEPT !.ic =
                              Assign(st.ic, specie.id,
                                     ZeroClamp(Lookup(files.equations, old_specie),
                                               kwargs.zero_tol))])
            ELSE IF ~HasKey(kwargs.metabolite_concentrations, specie.id)
                 THEN [st EXCEPT !.error = "KeyError"]
                 ELSE SteadyLoop(Tail(entries),
                          [st EXCEPT !.ic =
                              Assign(st.ic, specie.id,
                                     Lookup(kwargs.metabolite_concentrations, specie.id))])

\* lines 114-128
SteadyStateConcentrations ==
    /\ pc = "steady"
    /\ IF ~(ScopesRead("steady") \subseteq Produced)
       THEN /\ Raise("MissingScope")
            /\ UNCHANGED <<ic, completed>>
       ELSE LET st == SteadyLoop(id_map.species, [ic |-> ic, error |-> Ok])
            IN /\ ic' = st.ic
               /\ IF st.error # Ok
                  THEN Raise(st.error) /\ UNCHANGED completed
                  ELSE Complete("steady")
    /\ UNCHANGED <<files, kwargs, id_map, metabolites, reactions, custom_rates,
                   parameters, updates, enzyme_rate_equation,
                   enzyme_concentration_total>>

\* lines 130-133: the ID map is removed and the module returned
DeleteIdMap ==
    /\ pc = "del"
    /\ IF ~id_map.attr
       THEN /\ Raise("AttributeError")
            /\ UNCHANGED <<id_map, completed>>
       ELSE /\ Complete("del")
            /\ id_map' = [attr |-> FALSE, scopes |-> {}, species |-> <<>>,
                          reactions |-> <<>>, kf |-> <<>>, kr |-> <<>>]
    /\ UNCHANGED <<files, kwargs, metabolites, reactions, custom_rates, parameters,
                   updates, enzyme_rate_equation, enzyme_concentration_total, ic>>

-----------------------------------------------------------------------------
(* The text files and arguments of the modelled calls *)

enzyme_id == <<"T">>

atp_c == <<"a", "t", "p", "_", "c">>
adp_c == <<"a", "d", "p", "_", "c">>
raw_2pg_c == <<"2", "p", "g", "_", "c">>
new_2pg_c == <<"_", "2", "p", "g", "_", "c">>
E_T == <<"E", "_", "T">>
R1 == <<"R", "1">>
X == <<"X">>

\* the reaction file line "<id>: atp_c + 2pg_c <=> adp_c"
ReactionLine(id) ==
    id \o ColonSep \o atp_c \o PlusSep \o raw_2pg_c \o ArrowSep \o adp_c

\* the reaction file line "<id>: E_T + atp_c <=> E_T"
BindingLine(id) == id \o ColonSep \o E_T \o PlusSep \o atp_c \o ArrowSep \o E_T

k_R1_fwd == <<"k", "_", "R", "1", "_", "f", "w", "d">>
k_R1_rev == <<"k", "_", "R", "1", "_", "r", "e", "v">>
k_X_fwd == <<"k", "_", "X", "_", "f", "w", "d">>
k_X_rev == <<"k", "_", "X", "_", "r", "e", "v">>

\* a value of a cluster line as written: its digits in tenths, its decimal
\* exponent and its exponent marker
ValueText(digits, exp, marker) == [digits |-> digits, exp |-> exp, marker |-> marker]

\* the rate law text "k_R1_fwd*2pg_c*atp_c"
BaseRateLawText == k_R1_fwd \o <<"*">> \o raw_2pg_c \o <<"*">> \o atp_c

\* the files of a directory whose assembly runs to its end
BaseFiles ==
    [species |-> <<atp_c, raw_2pg_c, adp_c, E_T>>,
     reactions |-> <<ReactionLine(R1)>>,
     rateconst_labels |-> <<k_R1_fwd, k_R1_rev>>,
     rateconst_clusters |-> <<<<ValueText(25, 0, ""), ValueText(1, 1, "*^")>>>>,
     rateLaw |-> [text |-> BaseRateLawText, coeffs |-> <<0, 2, 0>>],
     equations |-> << <<E_T, 3>> >>]

BaseKwargs ==
    [enzyme_id |-> enzyme_id,
     kcluster |-> 1,
     zero_tol |-> 10,
     steady_state_flux |-> 4,
     metabolite_concentrations |-> << <<atp_c, 1>>, <<new_2pg_c, 2>>, <<adp_c, 3>> >>]

\* lines 77-81: the module as constructed, before the first loader
InitModule ==
    /\ pc = "species"
    /\ error = NoError
    /\ id_map = [attr |-> TRUE, scopes |-> {}, species |-> <<>>, reactions |-> <<>>,
                 kf |-> <<>>, kr |-> <<>>]
    /\ metabolites = <<>>
    /\ reactions = <<>>
    /\ custom_rates = <<>>
    /\ parameters = <<>>
    /\ updates = 0
    /\ enzyme_rate_equation = [set |-> FALSE, text |-> <<>>, coeffs |-> <<0, 0, 0>>]
    /\ enzyme_concentration_total = <<>>
    /\ ic = <<>>
    /\ completed = <<>>

\* the subsequences of a sequence
RECURSIVE SubSeqs(_)
SubSeqs(seq) ==
    IF seq = <<>> THEN {<<>>}
    ELSE LET rest == SubSeqs(Tail(seq))
         IN rest \cup {<<Head(seq)>> \o r : r \in rest}

\* species files that hold any of the base lines, and reaction files of one
\* or two lines
Init ==
    /\ InitModule
    /\ \E species \in SubSeqs(BaseFiles.species),
          lines \in {<<ReactionLine(R1)>>, <<BindingLine(R1)>>,
                     <<ReactionLine(R1), BindingLine(<<"R", "2">>)>>} :
          files = [BaseFiles EXCEPT !.species = species, !.reactions = lines]
    /\ kwargs = BaseKwargs

\* lines 73-133: make_enzyme_module_from_dir, one stage at a time
Next ==
    \/ MetabolitesFromTxt
    \/ ReactionsFromTxt
    \/ RateconstsFromTxt
    \/ KineticRateLawFromTxt
    \/ CalculateEnzymeTotal
    \/ SteadyStateConcentrations
    \/ DeleteIdMap

Spec == Init /\ [][Next]_vars

-----------------------------------------------------------------------------
(* Properties of the assembly, under Spec *)

Range(seq) == {seq[k] : k \in 1..Len(seq)}

AfterReactions == pc \notin {"species", "reactions"}

\* the identifier and the species tokens of a reaction file line
LineId(line) == Split(line, ColonSep)[1]
LineTokens(line) ==
    LET formula == Split(line, ColonSep)[2]
        sides == Split(formula, ArrowSep)
    IN Range(Split(sides[1], PlusSep)) \cup Range(Split(sides[2], PlusSep))

\* the reaction file lines with a token that the species file does not list
UnresolvedLines ==
    {k \in 1..Len(files.reactions) :
        \E token \in LineTokens(files.reactions[k]) : token \notin Range(files.species)}

\* C2: when a species token of a reaction formula has no entry in the species
\* ID map, the load ends in a KeyError in the reaction loader: the call never
\* gets past that stage and returns no module, and the reaction of every such
\* line is left without a formula (never built from a skipped or passed
\* through token).
C2_UnknownTokenFails ==
    UnresolvedLines # {} =>
        /\ pc \in {"species", "reactions", "failed"}
        /\ pc = "failed" => /\ error.type = "KeyError"
                            /\ completed = <<"species">>
        /\ \A k \in UnresolvedLines :
               \A j \in 1..Len(reactions) :
                   reactions[j].id = LineId(files.reactions[k]) => ~reactions[j].built

\* a load that failed on the second line of a reaction file, after the first
\* line was built
C2_Witness ==
    /\ UnresolvedLines = {2}
    /\ pc = "failed"
    /\ error.type = "KeyError"
    /\ Len(reactions) = 2
    /\ reactions[1].built
    /\ ~reactions[2].built

\* the reaction R1 with exactly the participants atp_c, _2pg_c and adp_c
R1Built ==
    /\ Len(reactions) = 1
    /\ reactions[1].id = R1
    /\ reactions[1].built
    /\ reactions[1].reactants = <<atp_c, new_2pg_c>>
    /\ reactions[1].products = <<adp_c>>

\* C3 as stated: the species file of the two lines atp_c and 2pg_c and the
\* reaction file line "R1: atp_c + 2pg_c <=> adp_c" produce the reaction R1
\* with the participants atp_c, _2pg_c, adp_c.
C3_TwoSpeciesBuildR1 ==
    (/\ files.species = <<atp_c, raw_2pg_c>>
     /\ files.reactions = <<ReactionLine(R1)>>
     /\ AfterReactions) => R1Built

\* C3, amended: with adp_c listed in the species file too, the reaction R1 has
\* exactly the participants atp_c, _2pg_c, adp_c; with only atp_c and 2pg_c
\* listed, the load fails with a KeyError on adp_c and R1 is left unbuilt.
C3_ThreeSpeciesBuildR1 ==
    /\ (/\ files.species = <<atp_c, raw_2pg_c, adp_c>>
        /\ files.reactions = <<ReactionLine(R1)>>
        /\ AfterReactions) => (R1Built /\ pc # "failed")
    /\ (/\ files.species = <<atp_c, raw_2pg_c>>
        /\ files.reactions = <<ReactionLine(R1)>>
        /\ AfterReactions) =>
           /\ pc = "failed"
           /\ error.type = "KeyError"
           /\ Len(reactions) = 1
           /\ ~reactions[1].built

C3_Witness ==
    /\ files.species = <<atp_c, raw_2pg_c, adp_c>>
    /\ files.reactions = <<ReactionLine(R1)>>
    /\ pc = "rateconsts"
    /\ R1Built
    /\ Lookup(id_map.species, raw_2pg_c) = new_2pg_c

\* C10: the stages complete in the order species, reactions, rate constants,
\* rate law, total enzyme, steady state, removal of the ID map; no stage reads
\* an ID map scope, the rate equation or the total before it exists; and a
\* returned module has been through every stage and carries no ID map.
C10_StageOrder ==
    LET order == <<"species", "reactions", "rateconsts", "ratelaw", "total",
                   "steady", "del">>
    IN /\ Len(completed) <= Len(order)
       /\ \A k \in 1..Len(completed) : completed[k] = order[k]
       /\ error.type \notin {"MissingScope", "AttributeError"}
       /\ "kf" \in Produced => "reactions" \in Produced
       /\ "reactions" \in Produced => "species" \in Produced
       /\ (enzyme_rate_equation.set /\ id_map.attr) =>
              {"species", "reactions", "kf", "kr"} \subseteq Produced
       /\ enzyme_concentration_total # <<>> => enzyme_rate_equation.set
       /\ ic # <<>> => enzyme_concentration_total # <<>>
       /\ pc = "returned" => /\ completed = order
                             /\ ~id_map.attr
       /\ ~id_map.attr => pc = "returned"

C10_Witness ==
    /\ pc = "returned"
    /\ ~id_map.attr
    /\ Len(completed) = 7
    /\ ic # <<>>

-----------------------------------------------------------------------------
(* The rate constant loader on generated label and cluster files *)

DigitChars == <<"0", "1", "2", "3", "4", "5", "6", "7", "8", "9">>

\* the identifier X<j> of the j-th reaction of the symmetry family X
FamilyId(j) == X \o <<DigitChars[j + 1]>>

\* the reaction file: R1, then the n reactions of the family X, in ascending
\* or descending order of identifier
FamilyReactions(n, ascending) ==
    <<ReactionLine(R1)>>
        \o [j \in 1..n |-> ReactionLine(FamilyId(IF ascending THEN j ELSE n + 1 - j))]

\* the j-th line of a cluster file of four values: the values differ from
\* line to line and from place to place, and the first of line 1 is 2.5
ClusterValues(j) ==
    [p \in 1..4 |-> ValueText(14 + 10 * j + p, 0, IF p % 2 = 0 THEN "*^" ELSE "")]

ClusterFile(n) == [j \in 1..n |-> ClusterValues(j)]

LabelFiles == {<<k_R1_fwd, k_R1_rev, k_X_fwd, k_X_rev>>,
               <<k_X_rev, k_R1_rev, k_X_fwd, k_R1_fwd>>}

InitRateconsts ==
    /\ InitModule
    /\ \E n \in 1..MaxFamily, ascending \in BOOLEAN, labels \in LabelFiles,
          lines \in 1..MaxClusters :
          files = [BaseFiles EXCEPT !.species = <<atp_c, raw_2pg_c, adp_c>>,
                                    !.reactions = FamilyReactions(n, ascending),
                                    !.rateconst_labels = labels,
                                    !.rateconst_clusters = ClusterFile(lines)]
    /\ \E kcluster \in (-(MaxClusters + 1))..(MaxClusters + 1) :
          kwargs = [BaseKwargs EXCEPT !.kcluster = kcluster]

SpecRateconsts == InitRateconsts /\ [][Next]_vars

\* the rate constant loader has been called and has ended, one way or the other
RateconstsEnded == /\ Len(completed) >= 2
                   /\ pc # "rateconsts"

\* the rate constant loader ran to its end
RateconstsDone == Len(completed) >= 3

NumClusters == Len(files.rateconst_clusters)

\* the place of a label in the label file
Place(label) == CHOOSE p \in 1..Len(files.rateconst_labels) : files.rateconst_labels[p] = label

\* the value a text of a cluster line denotes, in tenths
Denoted(text) == text.digits * (10 ^ text.exp)

\* C1 as stated: every cluster index outside 1..N, zero and the negative ones
\* included, raises the error that names the range [1, N] and assigns no rate
\* constant; an index k of 1..N selects the k-th line.
C1_OutOfRangeRaises ==
    RateconstsEnded =>
        IF kwargs.kcluster \in 1..NumClusters
        THEN /\ RateconstsDone
             /\ Lookup(parameters, <<"k", "f", "_", "R", "1">>) =
                    3600 * Denoted(files.rateconst_clusters[kwargs.kcluster][Place(k_R1_fwd)])
        ELSE /\ pc = "failed"
             /\ error = [type |-> "IndexError", range |-> <<1, NumClusters>>]
             /\ parameters = <<>>
             /\ id_map.kf = <<>>
             /\ id_map.kr = <<>>

\* the member of the family X at 0-based position i of n, with its coefficients
ExpectedSymmetryRate(i, n) ==
    <<DigitChars[n - i + 1], "*", "k", "f", "_", "X", "*">> \o atp_c \o <<"*">> \o new_2pg_c
        \o <<" ", "-", " ", DigitChars[i + 2], "*", "k", "r", "_", "X", "*">> \o adp_c

FamilySize == Len(files.reactions) - 1

\* C6: the n reactions of the family X, in ascending order of identifier, get
\* the custom rate with coefficient n-i on kf_X and i+1 on kr_X at 0-based
\* position i, each once and with the rest of the rate as it was; the reaction
\* R1, matched by its own labels, gets no custom rate.
C6_SymmetryCoefficients ==
    RateconstsDone =>
        /\ Len(custom_rates) = FamilySize
        /\ ~HasKey(custom_rates, R1)
        /\ \A i \in 0..(FamilySize - 1) :
               /\ HasKey(custom_rates, FamilyId(i + 1))
               /\ Lookup(custom_rates, FamilyId(i + 1)) = ExpectedSymmetryRate(i, FamilySize)

\* a family of three, listed in descending order in the reaction file, with
\* forward coefficients 3, 2, 1 and reverse coefficients 1, 2, 3
C6_Witness ==
    /\ pc = "ratelaw"
    /\ FamilySize = 3
    /\ files.reactions[2] = ReactionLine(FamilyId(3))
    /\ Lookup(custom_rates, FamilyId(1)) =
           <<"3", "*", "k", "f", "_", "X", "*">> \o atp_c \o <<"*">> \o new_2pg_c
               \o <<" ", "-", " ", "1", "*", "k", "r", "_", "X", "*">> \o adp_c
    /\ Lookup(custom_rates, FamilyId(2)) = ExpectedSymmetryRate(1, 3)
    /\ Lookup(custom_rates, FamilyId(3)) =
           <<"1", "*", "k", "f", "_", "X", "*">> \o atp_c \o <<"*">> \o new_2pg_c
               \o <<" ", "-", " ", "3", "*", "k", "r", "_", "X", "*">> \o adp_c

\* the constant a label names: the direction of its suffix, on the reaction
\* R1 or the family X
ExpectedConstant(label) ==
    CASE label = k_R1_fwd -> <<"k", "f", "_", "R", "1">>
      [] label = k_R1_rev -> <<"k", "r", "_", "R", "1">>
      [] label = k_X_fwd -> <<"k", "f", "_", "X">>
      [] label = k_X_rev -> <<"k", "r", "_", "X">>

\* the line lines[kcluster - 1] of the cluster file
SelectedLine ==
    files.rateconst_clusters[IF kwargs.kcluster >= 1 THEN kwargs.kcluster
                             ELSE NumClusters + kwargs.kcluster]

\* C7: every label/value pair of the selected line installs the raw value
\* times 3600 on the forward (_fwd) or reverse (_rev) constant the label
\* names; nothing is installed before the loader's one parameter update, and
\* nothing else is installed by it.
C7_PerHourValues ==
    /\ ~RateconstsDone => (parameters = <<>> /\ updates = 0)
    /\ RateconstsDone =>
           /\ updates = 1
           /\ Len(parameters) = Len(files.rateconst_labels)
           /\ \A p \in 1..Len(files.rateconst_labels) :
                  /\ HasKey(parameters, ExpectedConstant(files.rateconst_labels[p]))
                  /\ Lookup(parameters, ExpectedConstant(files.rateconst_labels[p])) =
                         3600 * Denoted(SelectedLine[p])

\* the raw value 2.5 of the label k_R1_fwd installed as 9000 on kf_R1
C7_Witness ==
    /\ pc = "ratelaw"
    /\ kwargs.kcluster = 1
    /\ files.rateconst_labels[1] = k_R1_fwd
    /\ files.rateconst_clusters[1][1] = ValueText(25, 0, "")
    /\ Lookup(parameters, <<"k", "f", "_", "R", "1">>) = 90000
    /\ Lookup(id_map.kf, k_R1_fwd) = <<"k", "f", "_", "R", "1">>

-----------------------------------------------------------------------------
(* The species loader on generated identifiers *)

\* the names a generated identifier starts with: two metabolites, the free
\* enzyme, and enzyme forms with one and with two bound ligands
Stems == {<<"a", "l", "a">>,
          <<"2", "p", "g">>,
          E_T,
          E_T \o <<"&", "a", "t", "p">>,
          E_T \o <<"&", "a", "t", "p", "@", "a", "t", "p">>}

\* a bracketed tag: an isomer letter or the compartment code c, with or
\* without a space before the bracket
Tags == {<<"[", letter, "]">> : letter \in {"D", "L", "c"}}
            \cup {<<" ", "[", letter, "]">> : letter \in {"D", "L", "c"}}

\* the sequences of at most n tags
RECURSIVE TagSeqs(_)
TagSeqs(n) ==
    IF n = 0 THEN {<<>>}
    ELSE TagSeqs(n - 1) \cup {tags \o tag : tags \in TagSeqs(n - 1), tag \in Tags}

InitSpecies ==
    /\ InitModule
    /\ \E stem \in Stems, tags \in TagSeqs(MaxTags) :
          files = [BaseFiles EXCEPT !.species = <<stem \o tags>>]
    /\ kwargs = BaseKwargs

SpecSpecies == InitSpecies /\ [][MetabolitesFromTxt]_vars

\* the bracketed letters of a raw identifier, left to right
BracketLetters(raw) ==
    LET at == {i \in 1..(Len(raw) - 2) : raw[i] = "[" /\ raw[i + 2] = "]"}
        places == SelectSeq([i \in 1..Len(raw) |-> i], LAMBDA i : i \in at)
    IN [k \in 1..Len(places) |-> raw[places[k] + 1]]

IsomerLetters(raw) == SelectSeq(BracketLetters(raw), LAMBDA l : l \in {"D", "L"})
OtherLetters(raw) == SelectSeq(BracketLetters(raw), LAMBDA l : l \notin {"D", "L"})

\* C9 as stated: for a raw identifier with a bracketed isomer letter (D or L),
\* no isomer bracket is left in the identifier or used as the compartment; the
\* species has a compartment exactly when one other bracketed letter remains,
\* and then that letter is the compartment and no bracket is left at all.
C9_IsomerNeverCompartment ==
    (pc = "reactions" /\ IsomerLetters(files.species[1]) # <<>>) =>
        LET raw == files.species[1]
            specie == metabolites[1]
        IN /\ ~Contains(specie.id, <<"[", "D", "]">>)
           /\ ~Contains(specie.id, <<"[", "L", "]">>)
           /\ specie.compartment.isStr => specie.compartment.str \notin {"D", "L"}
           /\ specie.compartment.isStr <=> Len(OtherLetters(raw)) = 1
           /\ Len(OtherLetters(raw)) = 1 =>
                  /\ specie.compartment.str = OtherLetters(raw)[1]
                  /\ ~Contains(specie.id, <<"[">>)

\* the number of bound-ligand delimiters of an identifier
DelimiterCount(raw) == Cardinality({i \in 1..Len(raw) : raw[i] \in BoundDelimiters})

\* the raw identifier names an enzyme form with bound ligands
BoundForm(raw) ==
    /\ StartsWith(raw, <<"E", "_">> \o kwargs.enzyme_id)
    /\ DelimiterCount(raw) > 0

\* the ligand names of a raw identifier: the fragments after the first of the
\* identifier without its bracketed tags
LigandNames(raw) == Tail(bound_metabolites_split(compartment_finder_sub(<<>>, raw)))

\* the identifier a ligand name is to get: digit-prefixed, and tagged once with
\* the compartment of the form when the form has one
TaggedOnce(name, compartment) ==
    prefix_number_id(IF compartment.isStr THEN name \o <<"_", compartment.str>> ELSE name)

\* the sum of the counts of a bound-ligand mapping
RECURSIVE CountSum(_)
CountSum(bound) == IF bound = <<>> THEN 0 ELSE Head(bound)[2] + CountSum(Tail(bound))

\* no rewriting pattern matches the identifier: no bracketed tag, no leading
\* digit, no bound-ligand delimiter
MatchesNoPattern(raw) ==
    /\ BracketLetters(raw) = <<>>
    /\ prefix_number_id(raw) = raw
    /\ DelimiterCount(raw) = 0

\* C11 as stated: for a raw identifier of an enzyme form with bound-ligand
\* delimiters, with or without a compartment tag, the normalization succeeds,
\* every delimiter of the form's identifier is an underscore, the counts of the
\* bound-ligand mapping sum to the number of delimiters, and (for an identifier
\* without isomer tags) the mapping counts each ligand, digit-prefixed and
\* tagged exactly once with the form's compartment, by its occurrences; an
\* identifier matching no rewriting pattern is passed through unchanged.
C11_BoundLigandsNormalized ==
    LET raw == files.species[1]
    IN /\ (pc # "species" /\ BoundForm(raw)) =>
              /\ pc = "reactions"
              /\ LET specie == metabolites[1]
                     names == LigandNames(raw)
                     expected == [k \in 1..Len(names) |->
                                     TaggedOnce(names[k], specie.compartment)]
                 IN /\ specie.form
                    /\ ~bound_metabolites_search(specie.id)
                    /\ Len(specie.id) = Len(bound_metabolites_sub(prefix_number_id(
                           IF specie.compartment.isStr
                           THEN compartment_finder_sub(<<"_", specie.compartment.str>>, raw)
                           ELSE raw)))
                    /\ CountSum(specie.bound_metabolites) = DelimiterCount(raw)
                    /\ IsomerLetters(raw) = <<>> =>
                          /\ \A pair \in Range(specie.bound_metabolites) :
                                pair[1] \in Range(expected)
                          /\ \A k \in 1..Len(expected) :
                                /\ HasKey(specie.bound_metabolites, expected[k])
                                /\ Lookup(specie.bound_metabolites, expected[k])
                                       = Cardinality({j \in 1..Len(expected) :
                                                         expected[j] = expected[k]})
       /\ (pc # "species" /\ MatchesNoPattern(raw)) =>
              /\ pc = "reactions"
              /\ metabolites[1].id = raw

-----------------------------------------------------------------------------
(* The rewriting of the rate law on generated species files and texts *)

raw_2pg == <<"2", "p", "g">>
raw_atp_bracket == <<"a", "t", "p", "[", "c", "]">>
x2pg_c == <<"x", "2", "p", "g", "_", "c">>

\* raw species identifiers, one a prefix of another, one with a compartment
RawPool == {raw_2pg, raw_2pg_c, atp_c, raw_atp_bracket}

\* the identifiers a generated rate law is the product of
TokenPool == RawPool \cup {x2pg_c, k_X_fwd}

\* the sequences of one or two different elements of a set
OneOrTwo(S) == {<<a>> : a \in S} \cup {pair \in S \X S : pair[1] # pair[2]}

InitFix ==
    /\ InitModule
    /\ \E species \in OneOrTwo(RawPool), left \in TokenPool, right \in TokenPool :
          files = [BaseFiles EXCEPT
                      !.species = species,
                      !.reactions = <<>>,
                      !.rateconst_labels = <<k_X_fwd, k_X_rev>>,
                      !.rateLaw = [text |-> left \o <<"*">> \o right, coeffs |-> <<0, 2, 0>>]]
    /\ kwargs = [BaseKwargs EXCEPT
                    !.metabolite_concentrations =
                        << <<atp_c, 1>>, <<new_2pg_c, 2>>, <<<<"_">> \o raw_2pg, 3>> >>]

SpecFix == InitFix /\ [][Next]_vars

\* an identifier of the text, rewritten if it is a key of one of the scopes
WholeToken(token) ==
    IF HasKey(id_map.species, token) THEN Lookup(id_map.species, token)
    ELSE IF HasKey(id_map.kf, token) THEN Lookup(id_map.kf, token)
    ELSE IF HasKey(id_map.kr, token) THEN Lookup(id_map.kr, token)
    ELSE token

\* the text with each of its identifiers rewritten as a whole, once
WholeTokenRewrite(text) ==
    LET tokens == Split(text, <<"*">>)
    IN Join([k \in 1..Len(tokens) |-> WholeToken(tokens[k])], <<"*">>)

\* C4 as stated: the rate law is rewritten token by token: a raw identifier is
\* replaced only where it is a whole identifier of the text, one that is part
\* of a longer identifier is left alone, and rewritten text is not rewritten
\* again.
C4_WholeTokenOnly ==
    (enzyme_rate_equation.set /\ id_map.attr) =>
        enzyme_rate_equation.text = WholeTokenRewrite(files.rateLaw.text)

-----------------------------------------------------------------------------
(* The total-enzyme solve on generated rate laws *)

\* the rate laws flux + a*(E - r1)*(E - r2), flux + a*(E - r1), flux + a and
\* flux, as coefficients <<c0, c1, c2>>
RateLaws(flux) ==
    {<<flux + a * r1 * r2, -(a * (r1 + r2)), a>> :
        a \in {1, 2}, r1 \in (-MaxRoot)..MaxRoot, r2 \in (-MaxRoot)..MaxRoot}
    \cup {<<flux - a * r1, a, 0>> : a \in {1, 2}, r1 \in (-MaxRoot)..MaxRoot}
    \cup {<<flux + a, 0, 0>> : a \in {0, 1}}

InitSolve ==
    /\ InitModule
    /\ \E flux \in {0, 4} :
          /\ kwargs = [BaseKwargs EXCEPT !.steady_state_flux = flux]
          /\ \E coeffs \in RateLaws(flux) :
                files = [BaseFiles EXCEPT !.rateLaw.coeffs = coeffs]

SpecSolve == InitSolve /\ [][Next]_vars

\* the total-enzyme solve has been called and has ended
TotalEnded == /\ Len(completed) >= 4
              /\ pc # "total"

\* the values of the total enzyme at which the rate law gives the flux
Solutions ==
    {e \in (-MaxRoot)..MaxRoot : RateAt(files.rateLaw.coeffs, e) = kwargs.steady_state_flux}

\* C5 as stated: the solve returns a value only when the equation has exactly
\* one solution, and that value is the solution; with none or several it
\* raises and no total is set.
C5_ExactlyOneSolution ==
    TotalEnded =>
        IF Cardinality(Solutions) = 1
        THEN enzyme_concentration_total = <<CHOOSE e \in Solutions : TRUE>>
        ELSE /\ pc = "failed"
             /\ enzyme_concentration_total = <<>>

-----------------------------------------------------------------------------
(* The per-form steady-state concentration on generated values *)

InitSteady ==
    /\ InitModule
    /\ \E v \in (-MaxConc)..MaxConc :
          files = [BaseFiles EXCEPT !.equations = << <<E_T, v>> >>]
    /\ \E zero_tol \in {0, 5, 10} :
          kwargs = [BaseKwargs EXCEPT !.zero_tol = zero_tol]

SpecSteady == InitSteady /\ [][Next]_vars

\* the per-form solves ran to their end
SteadyDone == Len(completed) >= 6

\* the value of the equation file of the enzyme form E_T
Evaluated == Lookup(files.equations, E_T)

\* C8 as stated: the stored initial concentration of the form is 0 when the
\* magnitude of the evaluated value is below the tolerance, and the raw value
\* otherwise.
C8_ClampBelowTol ==
    SteadyDone =>
        Lookup(ic, E_T) =
            IF Evaluated < kwargs.zero_tol /\ -Evaluated < kwargs.zero_tol
            THEN 0 ELSE Evaluated

\* C8, amended: the stored initial concentration of the form is 0 when the
\* magnitude of the evaluated value is below or equal to the tolerance, and
\* the raw value otherwise, whatever its sign.
C8_ClampWithinTol ==
    SteadyDone =>
        Lookup(ic, E_T) =
            IF Evaluated <= kwargs.zero_tol /\ -Evaluated <= kwargs.zero_tol
            THEN 0 ELSE Evaluated

\* the value 3e-16 stored as 0 under the tolerance 1e-15
C8_Witness ==
    /\ SteadyDone
    /\ Evaluated = 3
    /\ kwargs.zero_tol = 10
    /\ Lookup(ic, E_T) = 0

-----------------------------------------------------------------------------
(* The reaction loader on generated species files and formulas *)

\* the reaction file line "R1: <a> + <b> <=> <c>"
FormulaLine(a, b, c) == R1 \o ColonSep \o a \o PlusSep \o b \o ArrowSep \o c

\* species files of one or two raw identifiers, one a prefix of another, and a
\* formula of three tokens, the same one repeated or not
InitReactions ==
    /\ InitModule
    /\ \E species \in OneOrTwo(RawPool), a \in RawPool, b \in RawPool, c \in RawPool :
          files = [BaseFiles EXCEPT !.species = species,
                                    !.reactions = <<FormulaLine(a, b, c)>>]
    /\ kwargs = [BaseKwargs EXCEPT
                    !.metabolite_concentrations =
                        << <<atp_c, 1>>, <<new_2pg_c, 2>>, <<<<"_">> \o raw_2pg, 3>> >>]

SpecReactions == InitReactions /\ [][Next]_vars

\* the reaction loader has been called and has ended
ReactionsEnded == pc \notin {"species", "reactions"} /\ Len(completed) >= 1

\* every token of the formula line is a line of the species file
AllResolved == UnresolvedLines = {}

\* the normalized identifier the species loader gives a raw identifier
Normalized(raw) == NormalizeSpecies(raw, kwargs.enzyme_id).id

\* the tokens of one side of a formula, each replaced by its normalized
\* identifier, in their order
SideRewritten(side) ==
    LET tokens == Split(side, PlusSep)
    IN Join([k \in 1..Len(tokens) |-> Normalized(tokens[k])], PlusSep)

\* the formula of a line with each token position replaced by the normalized
\* identifier of its token, on its side of " <=> "
TokenwiseRewrite(line) ==
    LET sides == Split(Split(line, ColonSep)[2], ArrowSep)
    IN SideRewritten(sides[1]) \o ArrowSep \o SideRewritten(sides[2])

\* C12 as stated: for a reaction line whose species tokens all have entries in
\* the species ID map, the loader succeeds and the formula handed to
\* build_reaction_from_string is the original formula with each token position
\* replaced by exactly the normalized identifier of that token, in the original
\* order and on the original side, also when a species occurs more than once
\* and when one token contains the raw identifier of another.
C12_TokenwiseFormula ==
    (ReactionsEnded /\ AllResolved) =>
        /\ Len(completed) >= 2
        /\ Len(reactions) = 1
        /\ reactions[1].built
        /\ reactions[1].formula = TokenwiseRewrite(files.reactions[1])

-----------------------------------------------------------------------------
(* The rate constant loader on label files and cluster lines of any lengths *)

\* the identifier R<j> of the j-th reaction
ReactionId(j) == <<"R", DigitChars[j + 1]>>

\* the p-th label: k_R<j>_fwd then k_R<j>_rev of the reactions in turn
RateLabel(p) ==
    <<"k", "_">> \o ReactionId((p + 1) \div 2)
        \o (IF p % 2 = 1 THEN <<"_", "f", "w", "d">> ELSE <<"_", "r", "e", "v">>)

\* a cluster line of n values, all different
ValueLine(n, base) ==
    [p \in 1..n |-> ValueText(base + p, 0, IF p % 2 = 0 THEN "*^" ELSE "")]

\* a label file of 0..MaxLabels labels and one cluster line of 1..MaxValues
\* values, on the reactions the labels name
InitZip ==
    /\ InitModule
    /\ \E nl \in 0..MaxLabels, nv \in 1..MaxValues, base \in {10, 20, 30} :
          files = [BaseFiles EXCEPT
                      !.reactions = [j \in 1..((MaxLabels + 1) \div 2) |->
                                        ReactionLine(ReactionId(j))],
                      !.rateconst_labels = [p \in 1..nl |-> RateLabel(p)],
                      !.rateconst_clusters = <<ValueLine(nv, base)>>]
    /\ kwargs = BaseKwargs

SpecZip == InitZip /\ [][Next]_vars

NumLabels == Len(files.rateconst_labels)
NumValues == Len(files.rateconst_clusters[1])
NumPairs == IF NumLabels <= NumValues THEN NumLabels ELSE NumValues

\* the constant the p-th label names, and the scope of the ID map it goes to
LabelConstant(p) ==
    (IF p % 2 = 1 THEN <<"k", "f", "_">> ELSE <<"k", "r", "_">>)
        \o ReactionId((p + 1) \div 2)
LabelScope(p) == IF p % 2 = 1 THEN id_map.kf ELSE id_map.kr

\* C13: labels and values of the selected line are paired by position and as
\* many rate constants are assigned as the shorter of the two has elements;
\* when the counts differ the surplus labels or values are ignored without an
\* error, and a label with no value at its position gets no entry in the
\* forward or reverse ID map and no value in the parameter update.
C13_PairedUpToShorter ==
    RateconstsEnded =>
        /\ RateconstsDone
        /\ updates = 1
        /\ Len(parameters) = NumPairs
        /\ id_map.attr => Len(id_map.kf) + Len(id_map.kr) = NumPairs
        /\ \A p \in 1..NumLabels :
               IF p <= NumPairs
               THEN /\ HasKey(parameters, LabelConstant(p))
                    /\ Lookup(parameters, LabelConstant(p)) =
                           SecondsPerHour * Denoted(files.rateconst_clusters[1][p])
                    /\ id_map.attr =>
                           /\ HasKey(LabelScope(p), RateLabel(p))
                           /\ Lookup(LabelScope(p), RateLabel(p)) = LabelConstant(p)
               ELSE /\ ~HasKey(parameters, LabelConstant(p))
                    /\ ~HasKey(id_map.kf, RateLabel(p))
                    /\ ~HasKey(id_map.kr, RateLabel(p))

\* three labels on a line of two values: the loader ended without an error,
\* two constants are assigned, and the third label has none
C13_Witness ==
    /\ pc = "ratelaw"
    /\ NumLabels = 3
    /\ NumValues = 2
    /\ Len(parameters) = 2
    /\ HasKey(id_map.kf, RateLabel(1))
    /\ HasKey(id_map.kr, RateLabel(2))
    /\ ~HasKey(id_map.kf, RateLabel(3))
    /\ ~HasKey(parameters, LabelConstant(3))

====
